---- MODULE Spec2Model ----
(***************************************************************************)
(* The benchmark-orchestration engine of the two embedding speed testers:  *)
(*   Variant_base/test_ollama_speed_pro.py    (requests + tenacity, sync)  *)
(*   Variant_reserv/test_ollama_embeddings.py (httpx, asyncio)             *)
(* One run of EmbeddingTester.run_tests is modelled as a state machine:    *)
(* the liveness check, then for every configured model the warm-up         *)
(* requests (Variant_reserv), the timed probes with the client's retry     *)
(* loop, the aggregation of the measurements, and finally the summary.     *)
(*                                                                         *)
(* Numbers: a duration is a natural number of time units; a mean is a      *)
(* fraction <<num, den>> in lowest terms; std_duration holds the variance  *)
(* (the square of the standard deviation) as such a fraction.  An          *)
(* Optional value is <<>> (None) or <<v>>.                                 *)
(***************************************************************************)
EXTENDS Integers, Sequences, FiniteSets, TLC

\* ------------------------------------------------------------------ bounds
MaxModels == 2
MaxTests == 2
\* the timed probes of one run: models x tests_per_model
MaxProbes == 4
MaxRetries == 2
\* max_retries of the runs that show the whole sequence of backoff delays
MaxBackoffRetries == 6
\* tests_per_model of the runs that go once round the pool of sample texts
MaxPoolTests == 11
MaxWarmup == 1
MaxDur == 1
MaxDim == 2

\* --------------------------------------------------------- program constants
\* wait_exponential(multiplier=1, min=2, max=10) of Variant_base
WAIT_MULTIPLIER == 1
WAIT_MIN == 2
WAIT_MAX == 10
\* DEFAULT_RETRIES of Variant_reserv: the default of get_embedding's retries
DEFAULT_RETRIES == 3

ALL_MODELS ==
  << "embeddinggemma:300m-qat-q8_0", "qwen3-embedding:0.6b-fp16",
     "qwen3-embedding:0.6b-q8_0", "embeddinggemma:300m-qat-q4_0",
     "all-minilm:22m-l6-v2-fp16", "bge-m3:567m-fp16",
     "embeddinggemma:300m-bf16", "nomic-embed-text:137m-v1.5-fp16",
     "qllama/multilingual-e5-small:f16", "all-minilm:l6-v2" >>

\* ------------------------------------------------------------ Optional values
None == << >>

Some(v) == << v >>

IsSome(o) == o # << >>

Get(o) == o[1]

\* ------------------------------------------------------------------ fractions
RECURSIVE GCD(_, _)
GCD(a, b) == IF b = 0 THEN a ELSE GCD(b, a % b)

Rat(n, d) == LET g == GCD(n, d) IN IF g = 0 THEN << 0, 1 >> ELSE << n \div g, d \div g >>

RatLess(x, y) == x[1] * y[2] < y[1] * x[2]

RatLeq(x, y) == x[1] * y[2] <= y[1] * x[2]

RatAdd(x, y) == Rat(x[1] * y[2] + y[1] * x[2], x[2] * y[2])

RatDiv(x, k) == Rat(x[1], x[2] * k)

IsZero(x) == x[1] = 0

\* float("inf"), larger than every fraction
Inf == << 1, 0 >>

\* ------------------------------------------------------------ list utilities
RECURSIVE SumSeq(_)
SumSeq(s) == IF s = << >> THEN 0 ELSE Head(s) + SumSeq(Tail(s))

RECURSIVE SumSq(_)
SumSq(s) == IF s = << >> THEN 0 ELSE Head(s) * Head(s) + SumSq(Tail(s))

RECURSIVE SumRat(_)
SumRat(s) == IF s = << >> THEN << 0, 1 >> ELSE RatAdd(Head(s), SumRat(Tail(s)))

RECURSIVE MinSeq(_)
MinSeq(s) ==
  IF Len(s) = 1 THEN s[1]
  ELSE LET m == MinSeq(Tail(s)) IN IF Head(s) <= m THEN Head(s) ELSE m

RECURSIVE MaxSeq(_)
MaxSeq(s) ==
  IF Len(s) = 1 THEN s[1]
  ELSE LET m == MaxSeq(Tail(s)) IN IF Head(s) >= m THEN Head(s) ELSE m

\* sorted(values): ascending insertion of naturals
RECURSIVE InsertNat(_, _)
InsertNat(x, s) ==
  IF s = << >> THEN << x >>
  ELSE IF x < Head(s) THEN << x >> \o s
       ELSE << Head(s) >> \o InsertNat(x, Tail(s))

RECURSIVE SortNat(_)
SortNat(s) == IF s = << >> THEN << >> ELSE InsertNat(s[Len(s)], SortNat(SubSeq(s, 1, Len(s) - 1)))

\* -------------------------------------------------------- statistics module
\* statistics.mean
Mean(values) == Rat(SumSeq(values), Len(values))

\* statistics.median: the middle value, or the mean of the two middle values
Median(values) ==
  LET s == SortNat(values)
      n == Len(s)
  IN IF n % 2 = 1 THEN Rat(s[(n + 1) \div 2], 1)
     ELSE Rat(s[n \div 2] + s[n \div 2 + 1], 2)

\* statistics.stdev squared: the sample variance, for two values or more
Variance(values) ==
  LET n == Len(values)
  IN Rat(n * SumSq(values) - SumSeq(values) * SumSeq(values), n * (n - 1))

\* ------------------------------------------------------------------- state
VARIABLES
  variant,     \* "base" (Variant_base) or "reserv" (Variant_reserv)
  config,      \* TestConfig: max_retries, tests_per_model, warmup_requests, models
  env,         \* what the target service may do: kinds (answers to a timed
               \* probe), other (answers to any other request), times, dims;
               \* and the disk: whether an artifact can be opened for writing
  pc,          \* position of run_tests
  health,      \* outcome of the liveness check: "pending", "ok", "failed"
  mi,          \* 1-based index of the model under test
  w,           \* warm-up requests completed for the model under test
  i,           \* index of the timed probe under way
  call,        \* the client call under way (its retry loop)
  exc,         \* exception propagating out of test_model, or None
  metrics,     \* results / metrics_list of test_model
  results,     \* results of run_tests
  report,      \* the TestReport returned, or None
  raised,      \* the exception run_tests ended with, or None
  inflight,    \* requests sent to the target service and not yet answered
  saved,       \* the report artifacts written so far, in the order written
  embed_sent,  \* TRUE once a request to /api/embeddings was issued
  only_http    \* only_http[k]: every embedding request for model k so far
               \* was answered by an HTTP error status

vars ==
  << variant, config, env, pc, health, mi, w, i, call, exc, metrics, results,
     report, raised, inflight, saved, embed_sent, only_http >>

\* ------------------------------------------------------- the target service
\* ok        200 and a vector of dim floats
\* empty     200 and an empty or missing vector
\* malformed 200 and an "embedding" that is a number, not a list
\* badjson   200 and a body that is not JSON
\* non200    a status that is neither 200 nor an error (204)
\* http      a 5xx status (the service is temporarily unavailable)
\* http4xx   a 4xx status (the request is malformed, the model unknown)
\* timeout   no answer within the timeout, or no connection
Kinds == { "ok", "empty", "malformed", "badjson", "http", "http4xx", "timeout" }

\* the answers with an error status
HttpErrors == { "http", "http4xx" }

Response(kind, dim) == [ kind |-> kind, dim |-> dim ]

\* the answers to a timed probe (pc = "probe") and to a warm-up request
EmbeddingResponses ==
  LET kinds == IF pc = "probe" THEN env.kinds ELSE env.other
  IN { Response("ok", d) : d \in env.dims } \cup
     { Response(k, 0) : k \in kinds \ { "ok" } }

TagsResponses ==
  { Response(k, 0) : k \in { "ok", "non200" } \cup (env.other \cap (HttpErrors \cup { "timeout" })) }

ShowResponses ==
  { Response(k, 0) :
      k \in { "ok" } \cup (env.other \cap (HttpErrors \cup { "badjson", "timeout" })) }

\* ------------------------------------------------------------ client calls
NoCall ==
  [ budget |-> 0, attempt |-> 0, elapsed |-> 0, last_error |-> None,
    state |-> "idle", resp |-> Response("none", 0), slept |-> << >> ]

\* start_time = time.perf_counter(); no attempt made yet.  A call is "ready"
\* to send a request, "sent" while the request is in flight, "wait" during a
\* backoff sleep, and over when "ret" (it returned) or "exc" (it raised);
\* slept lists the backoff delays of the call so far
NewCall(budget) == [ NoCall EXCEPT !.budget = budget, !.state = "ready" ]

RECURSIVE Pow2(_)
Pow2(n) == IF n = 0 THEN 1 ELSE 2 * Pow2(n - 1)

Min2(a, b) == IF a <= b THEN a ELSE b

Max2(a, b) == IF a >= b THEN a ELSE b

\* tenacity wait_exponential(multiplier, min, max) after attempt number n
WaitExponential(n) == Max2(WAIT_MIN, Min2(WAIT_MULTIPLIER * Pow2(n - 1), WAIT_MAX))

\* a retry loop that stops one attempt late
StopAfterAttemptLate(n) == n > config.max_retries

\* tenacity stop_after_attempt(max_retries) after attempt number n
StopAfterAttempt(n) == n >= config.max_retries

\* raise_for_status(), or the exception of session.request
RaisesRequestException(kind) == kind \in HttpErrors \cup { "timeout" }

\* the endpoint of the client call under way
Endpoint ==
  CASE pc = "health" -> "tags"
    [] pc = "info" -> "show"
    [] OTHER -> "embeddings"

EndpointResponses ==
  CASE Endpoint = "tags" -> TagsResponses
    [] Endpoint = "show" -> ShowResponses
    [] OTHER -> EmbeddingResponses

\* the record of what the service answered to the model under test
Answered(r) ==
  IF Endpoint = "embeddings" /\ r.kind \notin HttpErrors
  THEN [ only_http EXCEPT ![mi] = FALSE ] ELSE only_http

\* a request sent while the previous one is still in flight
SendRequestUnawaited ==
  /\ pc \in { "health", "warmup", "probe", "info" }
  /\ exc = None
  /\ call.state \in { "ready", "sent" }
  /\ inflight < 2
  /\ call' = [ call EXCEPT !.state = "sent" ]
  /\ inflight' = inflight + 1
  /\ embed_sent' = (embed_sent \/ Endpoint = "embeddings")
  /\ UNCHANGED << variant, config, env, saved, pc, health, mi, w, i, exc, metrics,
                  results, report, raised, only_http >>

\* the request of the client call under way goes out: session.request of
\* Variant_base blocks, client.get and client.post of Variant_reserv are
\* awaited, so the caller goes on only when the answer is there
SendRequest ==
  /\ pc \in { "health", "warmup", "probe", "info" }
  /\ exc = None
  /\ call.state = "ready"
  /\ call' = [ call EXCEPT !.state = "sent" ]
  /\ inflight' = inflight + 1
  /\ embed_sent' = (embed_sent \/ Endpoint = "embeddings")
  /\ UNCHANGED << variant, config, env, saved, pc, health, mi, w, i, exc, metrics,
                  results, report, raised, only_http >>

\* Variant_base: one attempt of _do_request under @retry, from the answer on
BaseDoRequest ==
  /\ variant = "base"
  /\ pc \in { "health", "probe", "info" }
  /\ exc = None
  /\ call.state = "sent"
  /\ inflight' = inflight - 1
  /\ \E r \in EndpointResponses, t \in env.times :
       LET n == call.attempt + 1
       IN /\ only_http' = Answered(r)
          /\ call' =
            [ call EXCEPT
                !.attempt = n,
                !.elapsed = IF Endpoint = "embeddings" THEN call.elapsed + t ELSE 0,
                !.resp = r,
                !.state =
                  IF ~RaisesRequestException(r.kind) THEN "ret"
                  ELSE IF StopAfterAttempt(n) THEN "exc" ELSE "wait" ]
  /\ UNCHANGED << variant, config, env, saved, pc, health, mi, w, i, exc, metrics,
                  results, report, raised, embed_sent >>

\* Variant_base: tenacity sleeps before the next attempt
BaseBackoff ==
  /\ variant = "base"
  /\ call.state = "wait"
  /\ call' =
       [ call EXCEPT
           !.elapsed =
             IF Endpoint = "embeddings"
             THEN call.elapsed + WaitExponential(call.attempt) ELSE 0,
           !.slept = Append(call.slept, WaitExponential(call.attempt)),
           !.state = "ready" ]
  /\ UNCHANGED << variant, config, env, inflight, saved, pc, health, mi, w, i, exc, metrics,
                  results, report, raised, embed_sent, only_http >>

\* the error text get_embedding of Variant_reserv keeps in last_error
LastError(kind) ==
  CASE kind = "http" -> "HTTP 500"
    [] kind = "http4xx" -> "HTTP 400"
    [] kind = "timeout" -> "Timeout after"
    [] OTHER -> "Unexpected error"

\* Variant_reserv: response.status_code == 200 and response.json() parses
ReservReturns(kind) == kind \in { "ok", "empty", "malformed" }

\* Variant_reserv: one pass of the loop "for attempt in range(retries)" of
\* get_embedding, from the answer on, up to its return or its backoff sleep
ReservGetEmbeddingAttempt ==
  /\ variant = "reserv"
  /\ pc \in { "warmup", "probe" }
  /\ exc = None
  /\ call.state = "sent"
  /\ inflight' = inflight - 1
  /\ \E r \in EmbeddingResponses, t \in env.times :
       LET n == call.attempt + 1
       IN /\ only_http' = Answered(r)
          /\ call' =
            IF ReservReturns(r.kind)
            THEN [ call EXCEPT
                     !.attempt = n,
                     !.elapsed = call.elapsed + t,
                     !.resp = r,
                     !.state = "ret" ]
            ELSE [ call EXCEPT
                     !.attempt = n,
                     !.elapsed = call.elapsed + t,
                     !.resp = r,
                     !.last_error = Some(LastError(r.kind)),
                     !.state = IF n - 1 < call.budget - 1 THEN "wait" ELSE "ret" ]
  /\ UNCHANGED << variant, config, env, saved, pc, health, mi, w, i, exc, metrics,
                  results, report, raised, embed_sent >>

\* Variant_reserv: await asyncio.sleep(2 ** attempt)
ReservBackoff ==
  /\ variant = "reserv"
  /\ call.state = "wait"
  /\ call' =
       [ call EXCEPT
           !.elapsed = call.elapsed + Pow2(call.attempt - 1),
           !.slept = Append(call.slept, Pow2(call.attempt - 1)),
           !.state = "ready" ]
  /\ UNCHANGED << variant, config, env, inflight, saved, pc, health, mi, w, i, exc, metrics,
                  results, report, raised, embed_sent, only_http >>

\* ------------------------------------------------------ Sample Measurements
\* TEST_TEXTS (Variant_reserv) / DEFAULT_TEST_TEXTS (Variant_base): the pool
\* of ten sample texts, each named by its place in the list
TEST_TEXTS ==
  << "text0", "text1", "text2", "text3", "text4",
     "text5", "text6", "text7", "text8", "text9" >>

\* a pool that is read up to its last text and not cycled
TextOfClamped(k) == TEST_TEXTS[Min2(k, Len(TEST_TEXTS) - 1) + 1]

\* self.test_texts[i % len(self.test_texts)]
TextOf(k) == TEST_TEXTS[(k % Len(TEST_TEXTS)) + 1]

\* text_length=len(text) (and text=text[:50] in Variant_base): the
\* measurement names the text its probe was made with
WithText(m, text) ==
  [ success |-> m.success, duration |-> m.duration, embedding_dim |-> m.embedding_dim,
    tokens_per_second |-> m.tokens_per_second, error |-> m.error, text |-> text ]

\* EmbeddingResult (Variant_base) / EmbeddingMetrics (Variant_reserv)
Measurement(success, duration, dim, tps, error) ==
  [ success |-> success, duration |-> duration, embedding_dim |-> dim,
    tokens_per_second |-> tps, error |-> error ]

\* str(e) of the exceptions that reach run_tests or a measurement
ExcMessage(type) ==
  CASE type = "OllamaConnectionError" -> "Failed to connect to Ollama"
    [] type = "TypeError" -> "object of type 'int' has no len()"
    [] OTHER -> "Expecting value"

Raise(type, from) == Some([ type |-> type, from |-> from ])

\* Variant_base test_single_embedding, from the return of get_embedding on:
\* an EmbeddingResult, or the exception it lets through
BaseSingleEmbedding(c) ==
  IF c.state = "exc"
  THEN [ raises |-> Raise("OllamaConnectionError", "test_single_embedding"),
         result |-> None ]
  ELSE IF c.resp.kind = "badjson"
  THEN [ raises |-> None,
         result |-> Some(Measurement(FALSE, c.elapsed, None, None,
                                     Some(ExcMessage("JSONDecodeError")))) ]
  ELSE IF c.resp.kind = "malformed"
  THEN [ raises |-> Raise("TypeError", "test_single_embedding"), result |-> None ]
  ELSE LET embedding_dim == c.resp.dim
           tokens_per_second ==
             IF embedding_dim > 0 /\ c.elapsed > 0
             THEN Rat(embedding_dim, c.elapsed) ELSE << 0, 1 >>
       IN [ raises |-> None,
            result |-> Some(Measurement(TRUE, c.elapsed, Some(embedding_dim),
                                        Some(tokens_per_second), None)) ]

\* Variant_reserv test_single_embedding, from the return of get_embedding on
ReservSingleEmbedding(c) ==
  IF c.resp.kind = "malformed"
  THEN [ raises |-> Raise("TypeError", "test_single_embedding"), result |-> None ]
  ELSE IF c.resp.kind = "ok"
  THEN LET embedding_dim == c.resp.dim
           tokens_per_second ==
             IF c.elapsed > 0 THEN Rat(embedding_dim, c.elapsed) ELSE << 0, 1 >>
       IN [ raises |-> None,
            result |-> Some(Measurement(TRUE, c.elapsed, Some(embedding_dim),
                                        Some(tokens_per_second), None)) ]
  ELSE [ raises |-> None,
         result |-> Some(Measurement(FALSE, c.elapsed, None, None, c.last_error)) ]

SingleEmbedding(c) ==
  IF variant = "base" THEN BaseSingleEmbedding(c) ELSE ReservSingleEmbedding(c)

\* ------------------------------------------------------------ Model Results
ModelTestResult(model, status, total, ok, failed, error, individual) ==
  [ model |-> model, status |-> status, total_tests |-> total,
    successful_tests |-> ok, failed_tests |-> failed,
    avg_duration |-> None, min_duration |-> None, max_duration |-> None,
    median_duration |-> None, std_duration |-> None,
    avg_embedding_dim |-> None, avg_tokens_per_second |-> None,
    model_info |-> None, error |-> error, individual |-> individual ]

IsSuccess(m) == m.success

IsFailure(m) == ~m.success

HasError(m) == IsSome(m.error)

\* "if r.embedding_dim": a dimension that is present and not 0
HasDim(m) == IsSome(m.embedding_dim) /\ Get(m.embedding_dim) # 0

\* "if r.tokens_per_second": a throughput that is present and not 0
HasTps(m) == IsSome(m.tokens_per_second) /\ ~IsZero(Get(m.tokens_per_second))

Durations(ms) == [ k \in 1..Len(ms) |-> ms[k].duration ]

Dims(ms) == [ k \in 1..Len(ms) |-> Get(ms[k].embedding_dim) ]

Tps(ms) == [ k \in 1..Len(ms) |-> Get(ms[k].tokens_per_second) ]

\* _calculate_stats with the single value itself as the spread of one value
CalculateStatsSpreadOfOne(values) ==
  [ mean |-> Mean(values),
    min |-> Rat(MinSeq(values), 1),
    max |-> Rat(MaxSeq(values), 1),
    std |-> IF Len(values) > 1 THEN Variance(values) ELSE Mean(values) ]

\* _calculate_stats of Variant_base, for a list that is not empty
CalculateStats(values) ==
  [ mean |-> Mean(values),
    min |-> Rat(MinSeq(values), 1),
    max |-> Rat(MaxSeq(values), 1),
    std |-> IF Len(values) > 1 THEN Variance(values) ELSE << 0, 1 >> ]

\* "; ".join(set(error_messages)): the distinct messages (the order of a set
\* is not fixed, so the joined text is kept as the set itself)
JoinDistinct(msgs) == { msgs[k] : k \in 1..Len(msgs) }

\* the statistics fields of a SUCCESS result of Variant_base
BaseSuccessResult(model, num_tests, res, model_info) ==
  LET successful_results == SelectSeq(res, IsSuccess)
      durations == Durations(successful_results)
      embedding_dims == Dims(SelectSeq(successful_results, HasDim))
      tokens_per_sec == Tps(SelectSeq(successful_results, HasTps))
      duration_stats == CalculateStats(durations)
  IN [ ModelTestResult(model, "SUCCESS", num_tests, Len(successful_results),
                       None, None, res)
       EXCEPT
         !.avg_duration = Some(duration_stats.mean),
         !.min_duration = Some(duration_stats.min),
         !.max_duration = Some(duration_stats.max),
         !.std_duration = Some(duration_stats.std),
         !.avg_embedding_dim =
           IF embedding_dims # << >> THEN Some(Mean(embedding_dims)) ELSE None,
         !.avg_tokens_per_second =
           IF tokens_per_sec # << >>
           THEN Some(RatDiv(SumRat(tokens_per_sec), Len(tokens_per_sec))) ELSE None,
         !.model_info = Some(model_info) ]

\* the FAILED result of Variant_base
BaseFailedResult(model, num_tests, res) ==
  ModelTestResult(model, "FAILED", num_tests, 0, None,
                  Some({ "All tests failed" }), res)

\* int(x) of a fraction that is not negative
IntOf(x) == x[1] \div x[2]

\* the aggregation of Variant_reserv test_model ("Aggregate results" on)
ReservAggregate(model, metrics_list) ==
  LET successful == SelectSeq(metrics_list, IsSuccess)
      failed == SelectSeq(metrics_list, IsFailure)
  IN IF successful = << >>
     THEN LET with_message == SelectSeq(failed, HasError)
              error_messages == [ k \in 1..Len(with_message) |-> Get(with_message[k].error) ]
          IN ModelTestResult(model, "FAILED", Len(metrics_list), 0, Some(Len(failed)),
                             IF error_messages # << >>
                             THEN Some(JoinDistinct(error_messages))
                             ELSE Some({ "All tests failed" }),
                             metrics_list)
     ELSE LET durations == Durations(successful)
              embedding_dims == Dims(SelectSeq(successful, HasDim))
              tokens_per_sec == Tps(SelectSeq(successful, HasTps))
          IN [ ModelTestResult(model, "SUCCESS", Len(metrics_list), Len(successful),
                               Some(Len(failed)), None, metrics_list)
               EXCEPT
                 !.avg_duration = Some(Mean(durations)),
                 !.min_duration = Some(Rat(MinSeq(durations), 1)),
                 !.max_duration = Some(Rat(MaxSeq(durations), 1)),
                 !.median_duration = Some(Median(durations)),
                 !.std_duration =
                   Some(IF Len(durations) > 1 THEN Variance(durations) ELSE << 0, 1 >>),
                 !.avg_embedding_dim =
                   IF embedding_dims # << >>
                   THEN Some(Rat(IntOf(Mean(embedding_dims)), 1)) ELSE None,
                 !.avg_tokens_per_second =
                   IF tokens_per_sec # << >>
                   THEN Some(RatDiv(SumRat(tokens_per_sec), Len(tokens_per_sec)))
                   ELSE None ]

\* an ERROR result that counts no failed test
ErrorResultNoFailed(model, e) ==
  ModelTestResult(model, "ERROR", config.tests_per_model, 0,
                  IF variant = "base" THEN None ELSE Some(0),
                  Some({ ExcMessage(e.type) }), << >>)

\* the result run_tests appends in its "except Exception as e" branch
ErrorResult(model, e) ==
  ModelTestResult(model, "ERROR", config.tests_per_model, 0,
                  IF variant = "base" THEN None ELSE Some(config.tests_per_model),
                  Some({ ExcMessage(e.type) }), << >>)

\* ------------------------------------------------------------------ summary
\* key=lambda x: x.avg_duration or float("inf")
SpeedKey(r) ==
  IF IsSome(r.avg_duration) /\ ~IsZero(Get(r.avg_duration))
  THEN Get(r.avg_duration) ELSE Inf

\* key=lambda x: x.avg_embedding_dim or 0
QualityKey(r) ==
  IF IsSome(r.avg_embedding_dim) /\ ~IsZero(Get(r.avg_embedding_dim))
  THEN Get(r.avg_embedding_dim) ELSE << 0, 1 >>

\* sorted(): x goes before the first element it is strictly before, so that
\* equal keys keep the order in which they were inserted (a stable sort)
RECURSIVE InsertByKey(_, _, _)
InsertByKey(x, s, reverse) ==
  IF s = << >> THEN << x >>
  ELSE IF (IF reverse THEN RatLess(Head(s).key, x.key) ELSE RatLess(x.key, Head(s).key))
       THEN << x >> \o s
       ELSE << Head(s) >> \o InsertByKey(x, Tail(s), reverse)

RECURSIVE SortedByKey(_, _)
SortedByKey(s, reverse) ==
  IF s = << >> THEN << >>
  ELSE InsertByKey(s[Len(s)], SortedByKey(SubSeq(s, 1, Len(s) - 1), reverse), reverse)

IsSuccessStatus(r) == r.status = "SUCCESS"

\* sorted(successful, key=...) of the speed ranking
SortedBySpeed(successful) ==
  LET keyed == [ k \in 1..Len(successful) |->
                   [ key |-> SpeedKey(successful[k]), item |-> successful[k] ] ]
      sorted == SortedByKey(keyed, FALSE)
  IN [ k \in 1..Len(sorted) |-> sorted[k].item ]

\* a quality ranking sorted without reverse=True
SortedByQualityAscending(successful) ==
  LET keyed == [ k \in 1..Len(successful) |->
                   [ key |-> QualityKey(successful[k]), item |-> successful[k] ] ]
      sorted == SortedByKey(keyed, FALSE)
  IN [ k \in 1..Len(sorted) |-> sorted[k].item ]

\* a quality ranking that is the ascending sort read backwards
SortedByQualityBackwards(successful) ==
  LET ascending == SortedByQualityAscending(successful)
  IN [ k \in 1..Len(ascending) |-> ascending[Len(ascending) + 1 - k] ]

\* sorted(successful, key=..., reverse=True) of the quality ranking
SortedByQuality(successful) ==
  LET keyed == [ k \in 1..Len(successful) |->
                   [ key |-> QualityKey(successful[k]), item |-> successful[k] ] ]
      sorted == SortedByKey(keyed, TRUE)
  IN [ k \in 1..Len(sorted) |-> sorted[k].item ]

\* one entry of a ranking (tokens_per_second is a key of Variant_base only)
RankEntry(rank, r) ==
  [ rank |-> rank, model |-> r.model, avg_duration |-> r.avg_duration,
    embedding_dim |-> r.avg_embedding_dim,
    tokens_per_second |-> IF variant = "base" THEN r.avg_tokens_per_second ELSE None ]

\* a summary whose failed_models counts the FAILED results only
CreateSummaryFailedOnly(res) ==
  LET IsFailedStatus(r) == r.status = "FAILED"
      successful == SelectSeq(res, IsSuccessStatus)
      by_speed == SortedBySpeed(successful)
      by_quality == SortedByQuality(successful)
  IN [ total_models |-> Len(res),
       successful_models |-> Len(successful),
       failed_models |-> Len(SelectSeq(res, IsFailedStatus)),
       fastest_model |->
         IF variant = "reserv" /\ by_speed # << >> THEN Some(by_speed[1].model) ELSE None,
       highest_quality_model |->
         IF variant = "reserv" /\ by_quality # << >> THEN Some(by_quality[1].model) ELSE None,
       ranking_by_speed |-> [ k \in 1..Len(by_speed) |-> RankEntry(k, by_speed[k]) ],
       ranking_by_quality |-> [ k \in 1..Len(by_quality) |-> RankEntry(k, by_quality[k]) ] ]

\* _create_summary (fastest_model and highest_quality_model are keys of
\* Variant_reserv only; failed_models counts every result that is not SUCCESS)
CreateSummary(res) ==
  LET successful == SelectSeq(res, IsSuccessStatus)
      by_speed == SortedBySpeed(successful)
      by_quality == SortedByQuality(successful)
  IN [ total_models |-> Len(res),
       successful_models |-> Len(successful),
       failed_models |-> Len(res) - Len(successful),
       fastest_model |->
         IF variant = "reserv" /\ by_speed # << >> THEN Some(by_speed[1].model) ELSE None,
       highest_quality_model |->
         IF variant = "reserv" /\ by_quality # << >> THEN Some(by_quality[1].model) ELSE None,
       ranking_by_speed |-> [ k \in 1..Len(by_speed) |-> RankEntry(k, by_speed[k]) ],
       ranking_by_quality |-> [ k \in 1..Len(by_quality) |-> RankEntry(k, by_quality[k]) ] ]

\* ---------------------------------------------------------- report exporters
\* the statistics of a Model Result
StatNames ==
  { "avg_duration", "min_duration", "max_duration", "median_duration",
    "std_duration", "avg_embedding_dim", "avg_tokens_per_second" }

\* "x if x else ...": an Optional number that is present and not 0
Truthy(x) == IsSome(x) /\ ~IsZero(Get(x))

\* What an exporter writes for statistic s of result r: "value" (the number,
\* formatted), the text it writes instead ("", "N/A", "None", "null"),
\* "omitted" (the artifact has no cell and no line for it), or "TypeError"
\* (formatting the statistic raises).

\* json.dump of report.model_dump() / asdict(report): null for None; a
\* result of Variant_base has no median_duration
JsonCell(r, s) ==
  IF variant = "base" /\ s = "median_duration" THEN "omitted"
  ELSE IF IsSome(r[s]) THEN "value" ELSE "null"

\* Variant_base _save_csv: f"{x:.4f}" if x else "" for a SUCCESS result,
\* "" in every statistics column for any other
BaseCsvCell(r, s) ==
  IF s = "median_duration" THEN "omitted"
  ELSE IF r.status = "SUCCESS" /\ Truthy(r[s]) THEN "value" ELSE ""

\* Variant_base _save_text_report, DETAILED RESULTS: f"{x:.4f}" and int(x)
\* without a test for None for a SUCCESS result, the error line alone for
\* any other
BaseTextCell(r, s) ==
  IF s = "median_duration" \/ r.status # "SUCCESS" THEN "omitted"
  ELSE IF IsSome(r[s]) THEN "value" ELSE "TypeError"

\* Variant_reserv save_csv: f"{x:.4f}" if x else "" for every result
ReservCsvCell(r, s) == IF Truthy(r[s]) THEN "value" ELSE ""

\* Variant_reserv save_markdown, Detailed Results: f"{x:.4f}" without a test
\* for None (f"{x}" for the dimension) for a SUCCESS result, the error line
\* alone for any other
ReservMarkdownCell(r, s) ==
  IF r.status # "SUCCESS" THEN "omitted"
  ELSE IF IsSome(r[s]) THEN "value"
  ELSE IF s = "avg_embedding_dim" THEN "None" ELSE "TypeError"

\* Variant_reserv save_html, Detailed Results: the mean duration and the
\* dimension, each f"{x}" if x else "N/A"
ReservHtmlCell(r, s) ==
  IF s \notin { "avg_duration", "avg_embedding_dim" } THEN "omitted"
  ELSE IF Truthy(r[s]) THEN "value" ELSE "N/A"

Cell(format, r, s) ==
  CASE format = "json" -> JsonCell(r, s)
    [] format = "csv" -> IF variant = "base" THEN BaseCsvCell(r, s) ELSE ReservCsvCell(r, s)
    [] format = "txt" -> BaseTextCell(r, s)
    [] format = "markdown" -> ReservMarkdownCell(r, s)
    [] OTHER -> ReservHtmlCell(r, s)

\* the artifacts in the order written: save_results of Variant_base writes
\* all three; async_main of Variant_reserv writes those the configuration
\* enables, and every save_* flag is True by default
Artifacts ==
  IF variant = "base" THEN << "json", "csv", "txt" >>
  ELSE << "json", "csv", "markdown", "html" >>

\* the rows an exporter writes, one for each result of the report
Export(format, rep) ==
  [ k \in 1..Len(rep.results) |->
      [ s \in StatNames |-> Cell(format, rep.results[k], s) ] ]

ExportRaises(rows) == \E k \in 1..Len(rows), s \in StatNames : rows[k][s] = "TypeError"

\* ---------------------------------------------------------------- run_tests
Model == config.models[mi]

\* main: the configuration is built from the file or from the arguments;
\* TestConfig declares the types of its fields and checks no value
LoadConfig ==
  /\ pc = "main"
  /\ pc' = "start"
  /\ UNCHANGED << variant, config, env, inflight, saved, health, mi, w, i, call, exc,
                  metrics, results, report, raised, embed_sent, only_http >>

\* run_tests begins: the liveness check is the first thing asked of the service
StartRun ==
  /\ pc = "start"
  /\ pc' = "health"
  /\ call' = NewCall(IF variant = "base" THEN config.max_retries ELSE 1)
  /\ UNCHANGED << variant, config, env, inflight, saved, health, mi, w, i, exc, metrics, results,
                  report, raised, embed_sent, only_http >>

\* Variant_base: health_check returns or raises, and run_tests goes on or raises
BaseHealthCheckReturn ==
  /\ variant = "base"
  /\ pc = "health"
  /\ call.state \in { "ret", "exc" }
  /\ IF call.state = "ret" /\ call.resp.kind = "ok"
     THEN /\ health' = "ok"
          /\ pc' = "model"
          /\ raised' = raised
     ELSE /\ health' = "failed"
          /\ pc' = "raised"
          /\ raised' = Some("OllamaConnectionError")
  /\ call' = NoCall
  /\ UNCHANGED << variant, config, env, inflight, saved, mi, w, i, exc, metrics, results, report,
                  embed_sent, only_http >>

\* a liveness check whose failure does not end the run
ReservHealthCheckGoesOn ==
  /\ variant = "reserv"
  /\ pc = "health"
  /\ call.state = "sent"
  /\ \E r \in TagsResponses :
       /\ health' = IF r.kind = "ok" THEN "ok" ELSE "failed"
       /\ pc' = "model"
       /\ raised' = raised
  /\ call' = NoCall
  /\ inflight' = inflight - 1
  /\ UNCHANGED << variant, config, env, saved, mi, w, i, exc, metrics, results,
                  report, embed_sent, only_http >>

\* Variant_reserv: health_check is one GET without retry; False on any
\* httpx.HTTPError and on any status but 200
ReservHealthCheck ==
  /\ variant = "reserv"
  /\ pc = "health"
  /\ call.state = "sent"
  /\ \E r \in TagsResponses :
       IF r.kind = "ok"
       THEN /\ health' = "ok"
            /\ pc' = "model"
            /\ raised' = raised
       ELSE /\ health' = "failed"
            /\ pc' = "raised"
            /\ raised' = Some("RuntimeError")
  /\ call' = NoCall
  /\ inflight' = inflight - 1
  /\ UNCHANGED << variant, config, env, saved, mi, w, i, exc, metrics, results,
                  report, embed_sent, only_http >>

\* run_tests calls test_model for the next model of the list
BeginModel ==
  /\ pc = "model"
  /\ mi <= Len(config.models)
  /\ metrics' = << >>
  /\ i' = 0
  /\ w' = 0
  /\ IF variant = "reserv" /\ config.warmup_requests > 0
     THEN /\ pc' = "warmup"
          /\ call' = NewCall(DEFAULT_RETRIES)
     ELSE IF config.tests_per_model > 0
     THEN /\ pc' = "probe"
          /\ call' = NewCall(config.max_retries)
     ELSE /\ pc' = "aggregate"
          /\ call' = NoCall
  /\ UNCHANGED << variant, config, env, inflight, saved, health, mi, exc, results, report, raised,
                  embed_sent, only_http >>

\* a warm-up request whose outcome is kept as a measurement
ReservWarmupReturnKept ==
  /\ variant = "reserv"
  /\ pc = "warmup"
  /\ call.state = "ret"
  /\ w' = w + 1
  /\ metrics' = Append(metrics, Measurement(call.resp.kind = "ok", call.elapsed, None,
                                            None, call.last_error))
  /\ IF w + 1 < config.warmup_requests
     THEN /\ pc' = pc
          /\ call' = NewCall(DEFAULT_RETRIES)
     ELSE IF config.tests_per_model > 0
     THEN /\ pc' = "probe"
          /\ call' = NewCall(config.max_retries)
     ELSE /\ pc' = "aggregate"
          /\ call' = NoCall
  /\ UNCHANGED << variant, config, env, inflight, saved, health, mi, i, exc, results,
                  report, raised, embed_sent, only_http >>

\* Variant_reserv: a warm-up get_embedding returned; its result is dropped
ReservWarmupReturn ==
  /\ variant = "reserv"
  /\ pc = "warmup"
  /\ call.state = "ret"
  /\ w' = w + 1
  /\ IF w + 1 < config.warmup_requests
     THEN /\ pc' = pc
          /\ call' = NewCall(DEFAULT_RETRIES)
     ELSE IF config.tests_per_model > 0
     THEN /\ pc' = "probe"
          /\ call' = NewCall(config.max_retries)
     ELSE /\ pc' = "aggregate"
          /\ call' = NoCall
  /\ UNCHANGED << variant, config, env, inflight, saved, health, mi, i, exc, metrics, results,
                  report, raised, embed_sent, only_http >>

\* a timed probe made outside the try of run_tests: its exception ends the run
ProbeReturnUncaught ==
  /\ pc = "probe"
  /\ exc = None
  /\ call.state \in { "ret", "exc" }
  /\ LET out == SingleEmbedding(call)
     IN IF IsSome(out.raises)
        THEN /\ raised' = Some(Get(out.raises).type)
             /\ pc' = "raised"
             /\ call' = NoCall
             /\ UNCHANGED << i, metrics >>
        ELSE /\ metrics' = Append(metrics, WithText(Get(out.result), TextOf(i)))
             /\ i' = i + 1
             /\ raised' = raised
             /\ IF i + 1 < config.tests_per_model
                THEN /\ pc' = pc
                     /\ call' = NewCall(config.max_retries)
                ELSE /\ pc' = "aggregate"
                     /\ call' = NoCall
  /\ UNCHANGED << variant, config, env, inflight, saved, health, mi, w, exc, results,
                  report, embed_sent, only_http >>

\* test_single_embedding ends: its measurement is appended and the loop of
\* test_model goes on, or its exception leaves test_model
ProbeReturn ==
  /\ pc = "probe"
  /\ exc = None
  /\ call.state \in { "ret", "exc" }
  /\ LET out == SingleEmbedding(call)
     IN IF IsSome(out.raises)
        THEN /\ exc' = out.raises
             /\ call' = NoCall
             /\ UNCHANGED << pc, i, metrics >>
        ELSE /\ metrics' = Append(metrics, WithText(Get(out.result), TextOf(i)))
             /\ i' = i + 1
             /\ exc' = exc
             /\ IF i + 1 < config.tests_per_model
                THEN /\ pc' = pc
                     /\ call' = NewCall(config.max_retries)
                ELSE /\ pc' = "aggregate"
                     /\ call' = NoCall
  /\ UNCHANGED << variant, config, env, inflight, saved, health, mi, w, results, report, raised,
                  embed_sent, only_http >>

\* Variant_reserv: test_model aggregates and returns; run_tests appends
ReservTestModelReturn ==
  /\ variant = "reserv"
  /\ pc = "aggregate"
  /\ results' = Append(results, ReservAggregate(Model, metrics))
  /\ mi' = mi + 1
  /\ pc' = "model"
  /\ metrics' = << >>
  /\ UNCHANGED << variant, config, env, inflight, saved, health, w, i, call, exc, report, raised,
                  embed_sent, only_http >>

\* Variant_base: test_model returns FAILED when no sample succeeded, else it
\* computes the statistics and asks for the model info
BaseTestModelAggregate ==
  /\ variant = "base"
  /\ pc = "aggregate"
  /\ IF SelectSeq(metrics, IsSuccess) = << >>
     THEN /\ results' = Append(results, BaseFailedResult(Model, config.tests_per_model, metrics))
          /\ mi' = mi + 1
          /\ pc' = "model"
          /\ metrics' = << >>
          /\ call' = call
     ELSE /\ pc' = "info"
          /\ call' = NewCall(config.max_retries)
          /\ UNCHANGED << results, mi, metrics >>
  /\ UNCHANGED << variant, config, env, inflight, saved, health, w, i, exc, report, raised,
                  embed_sent, only_http >>

\* Variant_base: get_model_info returns (model_info = {} on a
\* RequestException of response.json()) or raises; test_model returns SUCCESS
BaseModelInfoReturn ==
  /\ variant = "base"
  /\ pc = "info"
  /\ exc = None
  /\ call.state \in { "ret", "exc" }
  /\ IF call.state = "exc"
     THEN /\ exc' = Raise("OllamaConnectionError", "get_model_info")
          /\ UNCHANGED << results, mi, pc, metrics >>
     ELSE /\ results' =
               Append(results,
                      BaseSuccessResult(Model, config.tests_per_model, metrics,
                                        IF call.resp.kind = "badjson" THEN "empty" ELSE "info"))
          /\ mi' = mi + 1
          /\ pc' = "model"
          /\ metrics' = << >>
          /\ exc' = exc
  /\ call' = NoCall
  /\ UNCHANGED << variant, config, env, inflight, saved, health, w, i, report, raised, embed_sent, only_http >>

\* a run_tests that lets the exception of test_model end the run
RunTestsReraise ==
  /\ IsSome(exc)
  /\ raised' = Some(Get(exc).type)
  /\ exc' = None
  /\ pc' = "raised"
  /\ call' = NoCall
  /\ UNCHANGED << variant, config, env, inflight, saved, health, mi, w, i, metrics, results,
                  report, embed_sent, only_http >>

\* run_tests: "except Exception as e" appends an ERROR result for the model
RunTestsCatch ==
  /\ IsSome(exc)
  /\ results' = Append(results, ErrorResult(Model, Get(exc)))
  /\ exc' = None
  /\ mi' = mi + 1
  /\ pc' = "model"
  /\ metrics' = << >>
  /\ call' = NoCall
  /\ UNCHANGED << variant, config, env, inflight, saved, health, w, i, report, raised, embed_sent, only_http >>

\* a report that lists the results in the order of the speed ranking
ReturnReportRanked ==
  /\ pc = "model"
  /\ mi > Len(config.models)
  /\ report' =
       Some([ results |-> SortedBySpeed(results), summary |-> CreateSummary(results) ])
  /\ pc' = "done"
  /\ UNCHANGED << variant, config, env, inflight, saved, health, mi, w, i, call, exc, metrics,
                  results, raised, embed_sent, only_http >>

\* run_tests: the loop is over; the summary is built and the report returned
ReturnReport ==
  /\ pc = "model"
  /\ mi > Len(config.models)
  /\ report' = Some([ results |-> results, summary |-> CreateSummary(results) ])
  /\ pc' = "done"
  /\ UNCHANGED << variant, config, env, inflight, saved, health, mi, w, i, call, exc, metrics,
                  results, raised, embed_sent, only_http >>

\* ----------------------------------------------------------------- main
\* main: the next artifact is written (the first one after print_summary,
\* which only writes to the console).  open() may fail (OSError) and the
\* exporter may raise on a statistic; either exception leaves save_results
\* (Variant_base) or the sequence of save_* calls (Variant_reserv) and is
\* caught by "except Exception" of main, which returns 1
SaveArtifact ==
  /\ pc \in { "done", "save" }
  /\ LET format == Artifacts[Len(saved) + 1]
         rows == Export(format, Get(report))
     IN \E opened \in env.disk :
          IF opened /\ ~ExportRaises(rows)
          THEN /\ saved' = Append(saved, [ format |-> format, rows |-> rows ])
               /\ pc' = IF Len(saved) + 1 < Len(Artifacts) THEN "save" ELSE "exit"
               /\ raised' = raised
          ELSE /\ saved' = saved
               /\ pc' = "raised"
               /\ raised' = Some(IF opened THEN "TypeError" ELSE "OSError")
  /\ UNCHANGED << variant, config, env, inflight, health, mi, w, i, call, exc, metrics,
                  results, report, embed_sent, only_http >>

\* the operator's interrupt while run_tests runs: KeyboardInterrupt is no
\* Exception, so no except clause of the client, of test_model or of
\* run_tests catches it; it unwinds to main ("except KeyboardInterrupt:
\* return 130"; asyncio.run cancels the task in Variant_reserv) and the locals
\* of the frames it leaves are gone.  results is kept as the record of what
\* was completed before the interrupt.
Interrupt ==
  /\ pc \in { "start", "health", "model", "warmup", "probe", "aggregate", "info" }
  /\ exc = None
  /\ pc' = "raised"
  /\ raised' = Some("KeyboardInterrupt")
  /\ call' = NoCall
  /\ inflight' = 0
  /\ metrics' = << >>
  /\ i' = 0
  /\ w' = 0
  /\ UNCHANGED << variant, config, env, saved, health, mi, exc, results, report,
                  embed_sent, only_http >>

\* ----------------------------------------------------------- specifications
Configs ==
  { [ max_retries |-> r, tests_per_model |-> n, warmup_requests |-> wu,
      models |-> SubSeq(ALL_MODELS, 1, m) ] :
      r \in 1..MaxRetries, n \in 0..MaxTests, wu \in 0..MaxWarmup,
      m \in 1..Min2(MaxModels, Len(ALL_MODELS)) }

\* the state when main starts, for a set of configurations and a service
InitOf(configs, e) ==
  /\ variant \in { "base", "reserv" }
  /\ config \in configs
  /\ variant = "base" => config.warmup_requests = 0
  /\ env = e
  /\ pc = "main"
  /\ health = "pending"
  /\ mi = 1
  /\ w = 0
  /\ i = 0
  /\ call = NoCall
  /\ exc = None
  /\ metrics = << >>
  /\ results = << >>
  /\ report = None
  /\ raised = None
  /\ inflight = 0
  /\ saved = << >>
  /\ embed_sent = FALSE
  /\ only_http = [ k \in 1..Len(config.models) |-> TRUE ]

InitWith(e) ==
  InitOf({ c \in Configs : Len(c.models) * c.tests_per_model <= MaxProbes }, e)

\* the fault profile: every kind of answer to every request; one duration
\* of an attempt and one dimension; the output directory cannot be written
Init ==
  InitWith([ kinds |-> Kinds, other |-> Kinds, times |-> { 1 }, dims |-> { 1 },
             disk |-> { FALSE } ])

Next ==
  \/ LoadConfig
  \/ StartRun
  \/ SendRequest
  \/ BaseDoRequest
  \/ BaseBackoff
  \/ BaseHealthCheckReturn
  \/ ReservHealthCheck
  \/ BeginModel
  \/ ReservGetEmbeddingAttempt
  \/ ReservBackoff
  \/ ReservWarmupReturn
  \/ ProbeReturn
  \/ ReservTestModelReturn
  \/ BaseTestModelAggregate
  \/ BaseModelInfoReturn
  \/ RunTestsCatch
  \/ ReturnReport
  \/ SaveArtifact
  \/ Interrupt

Spec == Init /\ [][Next]_vars

\* the ranking profile: durations from 0 on and several dimensions, so that
\* the means differ between models; a timed probe is answered by a vector or
\* by an empty one, the other requests may also time out; the output
\* directory cannot be written
InitRank ==
  InitWith([ kinds |-> { "ok", "empty" }, other |-> { "ok", "timeout" },
             times |-> 0..MaxDur, dims |-> 1..MaxDim, disk |-> { FALSE } ])

SpecRank == InitRank /\ [][Next]_vars

\* the export profile: every artifact may be written or fail to open; a
\* timed probe is answered by a vector, by an empty one, by a body that is
\* not JSON, or not at all
InitExport ==
  InitWith([ kinds |-> { "ok", "empty", "badjson", "timeout" }, other |-> { "ok", "timeout" },
             times |-> { 1 }, dims |-> { 1 }, disk |-> BOOLEAN ])

SpecExport == InitExport /\ [][Next]_vars

\* the backoff profile: one model, one timed probe, a service that answers
\* or times out, and max_retries large enough for the delays to reach the
\* ceiling of wait_exponential
BackoffConfigs ==
  { [ max_retries |-> r, tests_per_model |-> 1, warmup_requests |-> wu,
      models |-> SubSeq(ALL_MODELS, 1, 1) ] :
      r \in 1..MaxBackoffRetries, wu \in 0..MaxWarmup }

InitBackoff ==
  InitOf(BackoffConfigs,
         [ kinds |-> { "ok", "timeout" }, other |-> { "ok", "timeout" },
           times |-> { 1 }, dims |-> { 1 }, disk |-> { FALSE } ])

SpecBackoff == InitBackoff /\ [][Next]_vars

\* the pool profile: one model and more timed probes than the pool has
\* texts; a probe is answered with a vector or with an empty one
PoolConfigs ==
  { [ max_retries |-> r, tests_per_model |-> n, warmup_requests |-> wu,
      models |-> SubSeq(ALL_MODELS, 1, 1) ] :
      r \in 1..MaxRetries, n \in 0..MaxPoolTests, wu \in 0..MaxWarmup }

InitPool ==
  InitOf(PoolConfigs,
         [ kinds |-> { "ok", "empty" }, other |-> { "ok", "timeout" },
           times |-> { 1 }, dims |-> { 1 }, disk |-> { FALSE } ])

SpecPool == InitPool /\ [][Next]_vars

\* ------------------------------------------------------------------- claims
Statuses(res) == { res[k].status : k \in 1..Len(res) }

\* C1: when the liveness check fails, run_tests has ended by raising its
\* connection failure (OllamaConnectionError in Variant_base, RuntimeError
\* "Cannot connect to Ollama" in Variant_reserv); no request to
\* /api/embeddings was issued, no Model Result exists and no report.
C1_LivenessFailureFailsFast ==
  health = "failed" =>
    /\ pc = "raised"
    /\ raised = Some(IF variant = "base" THEN "OllamaConnectionError" ELSE "RuntimeError")
    /\ ~embed_sent
    /\ results = << >>
    /\ metrics = << >>
    /\ report = None

C1_Witness == health = "failed" /\ pc = "raised" /\ variant = "reserv"

\* C2: test_single_embedding never raises: no exception leaves it, whatever
\* the client call did, retries exhausted included.
C2_ProbeNeverRaises == ~(IsSome(exc) /\ Get(exc).from = "test_single_embedding")

\* C3: a model whose every embedding request was answered by an HTTP error
\* gets a result with status FAILED and successful_tests = 0, and the run
\* still gives every configured model its result.
C3_HttpOnlyModelIsFailed ==
  /\ \A k \in 1..Len(results) :
       only_http[k] => results[k].status = "FAILED" /\ results[k].successful_tests = 0
  /\ pc = "done" => Len(results) = Len(config.models)

\* C4: an exception that leaves test_model for model m becomes, in the next
\* step of run_tests, one more result: for m, with status ERROR and the
\* exception's message as its error; the run does not raise and goes on with
\* the model after m, and after an ERROR result every later model of the
\* list has its result when the run is done.
C4_ExceptionBecomesErrored ==
  /\ [][ IsSome(exc) =>
           /\ Len(results') = Len(results) + 1
           /\ SubSeq(results', 1, Len(results)) = results
           /\ results'[Len(results')].model = config.models[mi]
           /\ results'[Len(results')].status = "ERROR"
           /\ results'[Len(results')].error = Some({ ExcMessage(Get(exc).type) })
           /\ mi' = mi + 1
           /\ pc' = "model"
           /\ raised' = None ]_vars
  /\ [](pc = "done" =>
          \A k \in 1..Len(results) :
            results[k].status = "ERROR" =>
              \A j \in (k + 1)..Len(config.models) :
                j <= Len(results) /\ results[j].model = config.models[j])

C4_Witness ==
  /\ pc = "done"
  /\ Len(results) >= 2
  /\ results[1].status = "ERROR"
  /\ results[2].status = "SUCCESS"

\* C5: the report of a finished run lists exactly one result per configured
\* model, entry k being the result of the k-th configured model.
C5_ReportInInputOrder ==
  pc = "done" =>
    /\ IsSome(report)
    /\ Len(Get(report).results) = Len(config.models)
    /\ \A k \in 1..Len(config.models) :
         Get(report).results[k].model = config.models[k]

C5_Witness ==
  /\ pc = "done"
  /\ IsSome(report)
  /\ Len(Get(report).results) >= 2
  /\ Get(report).results[1].status \in { "FAILED", "ERROR" }
  /\ Get(report).results[2].status = "SUCCESS"

\* C6: in Variant_reserv every Model Result, whatever its status, has
\* successful_tests + failed_tests = total_tests.
C6_CountsAddUp ==
  variant = "reserv" =>
    \A k \in 1..Len(results) :
      /\ IsSome(results[k].failed_tests)
      /\ results[k].successful_tests + Get(results[k].failed_tests) = results[k].total_tests

C6_Witness ==
  /\ variant = "reserv"
  /\ Statuses(results) = { "SUCCESS", "ERROR" }
  /\ \E k \in 1..Len(results) :
       results[k].successful_tests > 0 /\ Get(results[k].failed_tests) > 0

StatsPresent(r) ==
  /\ IsSome(r.avg_duration)
  /\ IsSome(r.min_duration)
  /\ IsSome(r.max_duration)
  /\ IsSome(r.std_duration)
  /\ variant = "reserv" => IsSome(r.median_duration)
  /\ IsSome(r.avg_embedding_dim)

StatsAbsent(r) ==
  /\ r.avg_duration = None
  /\ r.min_duration = None
  /\ r.max_duration = None
  /\ r.std_duration = None
  /\ r.median_duration = None
  /\ r.avg_embedding_dim = None

\* C7: in every Model Result the duration statistics and the mean
\* dimensionality are all present when successful_tests > 0 and all absent
\* when successful_tests = 0.
C7_StatsIffSuccess ==
  \A k \in 1..Len(results) :
    IF results[k].successful_tests > 0
    THEN StatsPresent(results[k]) ELSE StatsAbsent(results[k])

Succeeded(res) == { res[k].model : k \in { j \in 1..Len(res) : res[j].status = "SUCCESS" } }

\* the ranking holds exactly the Succeeded models, each once
IsRankingOfSucceeded(ranking, res) ==
  /\ Len(ranking) = Cardinality(Succeeded(res))
  /\ { ranking[k].model : k \in 1..Len(ranking) } = Succeeded(res)
  /\ \A k \in 1..Len(ranking) : ranking[k].rank = k

\* C8: the speed ranking of the report is a permutation of the Succeeded
\* results and the mean duration never decreases from one rank to the next.
C8_SpeedRankingSorted ==
  IsSome(report) =>
    LET ranking == Get(report).summary.ranking_by_speed
    IN /\ IsRankingOfSucceeded(ranking, Get(report).results)
       /\ \A k \in 1..(Len(ranking) - 1) :
            RatLeq(Get(ranking[k].avg_duration), Get(ranking[k + 1].avg_duration))

\* the mean dimensionality of a ranking entry, absent counting as 0
DimOf(entry) == IF IsSome(entry.embedding_dim) THEN Get(entry.embedding_dim) ELSE << 0, 1 >>

\* C9: the quality ranking of the report is a permutation of the Succeeded
\* results and the mean dimensionality never increases from one rank to the
\* next (an absent mean dimensionality ranks last).
C9_QualityRankingSorted ==
  IsSome(report) =>
    LET ranking == Get(report).summary.ranking_by_quality
    IN /\ IsRankingOfSucceeded(ranking, Get(report).results)
       /\ \A k \in 1..(Len(ranking) - 1) : RatLeq(DimOf(ranking[k + 1]), DimOf(ranking[k]))

C9_Witness ==
  /\ IsSome(report)
  /\ LET ranking == Get(report).summary.ranking_by_quality
     IN /\ Len(ranking) >= 2
        /\ RatLess(DimOf(ranking[2]), DimOf(ranking[1]))
        /\ ranking[1].model = config.models[2]
        /\ ranking[2].model = config.models[1]

CallOver == call.state \in { "ret", "exc" }

\* the call ended because its last attempt failed with a retryable failure
Exhausted ==
  \/ call.state = "exc"
  \/ variant = "reserv" /\ call.state = "ret" /\ ~ReservReturns(call.resp.kind)

\* C10: a client call with a retry budget of at least 1 (max_retries of the
\* client in Variant_base, the retries argument of get_embedding in
\* Variant_reserv) makes at most that many attempts, exactly that many when
\* every attempt failed with a retryable failure, and none after the attempt
\* that succeeded: the call that is over makes no further attempt.
C10_AttemptsWithinBudget ==
  /\ [](call.budget >= 1 =>
          /\ call.attempt <= call.budget
          /\ Exhausted => call.attempt = call.budget)
  /\ [][ CallOver => call'.attempt = 0 \/ call' = call ]_vars

C10_Witness == call.state = "exc" /\ call.attempt = 2 /\ call.budget = 2 /\ pc = "probe"

\* the failures the retry policy is not to retry: an HTTP 4xx answer (the
\* request is malformed, so the next attempt fails the same way)
NonRetryable(kind) == kind = "http4xx"

\* C11: in both variants, when the last answer to the client call under way
\* was a non-retryable failure, the call is over: it neither sleeps a backoff
\* delay nor makes a further attempt.
C11_NonRetryableEndsCall ==
  NonRetryable(call.resp.kind) => call.state \in { "ret", "exc" }

\* C12: at every point of a run, in both variants, at most one request to the
\* target service is in flight, and a client call (the liveness check, a
\* warm-up, a timed probe, a model-info lookup) is started only when no
\* request is in flight and the call before it is over, all of its retry
\* attempts and backoff delays included.
C12_OneRequestInFlight ==
  /\ [](inflight <= 1)
  /\ [](inflight = 1 <=> call.state = "sent")
  /\ [][ (call' # call /\ call'.state = "ready" /\ call'.attempt = 0)
           => (inflight = 0 /\ call.state \in { "idle", "ret" }) ]_vars

\* the second timed probe is in flight, after a first probe that was retried
C12_Witness ==
  /\ pc = "probe"
  /\ i = 1
  /\ inflight = 1
  /\ call.state = "sent"
  /\ metrics[1].duration > 1

\* C13: when an interrupt has arrived during a run and the program has ended,
\* no model and no probe was started after it (no client call is under way,
\* no request in flight), and a partial report exists that holds the results
\* of the models completed before the interrupt.
C13_InterruptGivesPartialReport ==
  (pc = "raised" /\ raised = Some("KeyboardInterrupt")) =>
    /\ call = NoCall
    /\ inflight = 0
    /\ IsSome(report)
    /\ Get(report).results = results

\* the steps a client call can still take: three for each attempt left
\* (send, answer, backoff), and its return
CallLeft(c) ==
  3 * (c.budget - c.attempt) +
    (CASE c.state = "ready" -> 2
       [] c.state = "sent" -> 1
       [] c.state = "wait" -> 3
       [] c.state \in { "ret", "exc" } -> 1
       [] OTHER -> 0)

\* the position of main and run_tests, counted down to the end of the program
PhaseLeft ==
  CASE pc = "main" -> 10
    [] pc = "start" -> 9
    [] pc = "health" -> 8
    [] pc = "model" -> 7
    [] pc = "warmup" -> 6
    [] pc = "probe" -> 5
    [] pc = "aggregate" -> 4
    [] pc = "info" -> 3
    [] pc = "done" -> 2
    [] pc = "save" -> 1
    [] OTHER -> 0

\* the passes left of the loop under way
LoopLeft ==
  CASE pc = "warmup" -> config.warmup_requests - w
    [] pc = "probe" -> config.tests_per_model - i
    [] pc \in { "done", "save" } -> Len(Artifacts) - Len(saved)
    [] OTHER -> 0

\* what is left of the run: the models, the phases of the model under test,
\* the passes of its loop and the steps of its client call
Progress == << Len(config.models) + 1 - mi, PhaseLeft, LoopLeft, CallLeft(call) >>

\* the lexicographic order of two such tuples, which is well-founded
LexLess(a, b) ==
  \E k \in 1..Len(a) : a[k] < b[k] /\ \A j \in 1..(k - 1) : a[j] = b[j]

\* the program has a step to take (the guard of one of its actions holds):
\* a client call is under way and each of its states has its step, each
\* request attempt returning or timing out; or an exception is on its way to
\* run_tests; or main or run_tests is between two calls
StepDue ==
  \/ pc \in { "main", "start", "model", "aggregate", "done", "save" }
  \/ IsSome(exc)
  \/ /\ pc \in { "health", "warmup", "probe", "info" }
     /\ call.state \in { "ready", "sent", "wait", "ret", "exc" }

\* C14: once the liveness check has succeeded, run_tests never ends by
\* raising, whatever the service answers to the requests (only the operator's
\* interrupt ends it without a report); until it has returned its report
\* the program always has a next step to take, and every step brings the run
\* nearer to its end, so that it does end.
C14_RunTestsReturnsReport ==
  /\ []((health = "ok" /\ pc = "raised" /\ report = None)
          => raised = Some("KeyboardInterrupt"))
  /\ []((health = "ok" /\ pc # "raised" /\ report = None) => StepDue)
  /\ [][ LexLess(Progress', Progress) ]_vars

\* a report returned after a model that raised and a model whose probes failed
C14_Witness ==
  /\ pc = "done"
  /\ IsSome(report)
  /\ Len(results) = 2
  /\ results[1].status = "ERROR"
  /\ results[2].status = "FAILED"

\* a configuration that asks for zero samples per model
InvalidConfig == config.tests_per_model = 0

\* C15: a configuration with an invalid value is rejected before the run
\* starts: with it no liveness check and no probe is ever issued (no request
\* is sent, the liveness check stays pending) and no report is produced.
C15_InvalidConfigRejected ==
  InvalidConfig =>
    /\ inflight = 0
    /\ health = "pending"
    /\ ~embed_sent
    /\ report = None

\* the formats of the artifacts written so far
SavedFormats == { saved[k].format : k \in 1..Len(saved) }

\* C16: when the writing of one artifact has failed (open raised OSError),
\* the run is not ended by the failure, and once the program has ended every
\* other artifact has been written.
C16_WriteFailureIsLocal ==
  raised = Some("OSError") =>
    /\ pc # "raised"
    /\ pc = "exit" => Cardinality(SavedFormats) = Len(Artifacts) - 1

\* a Succeeded result with every statistic present
FullResult ==
  [ ModelTestResult("m", "SUCCESS", 1, 1, Some(0), None, << >>) EXCEPT
      !.avg_duration = Some(<< 1, 1 >>), !.min_duration = Some(<< 1, 1 >>),
      !.max_duration = Some(<< 1, 1 >>), !.median_duration = Some(<< 1, 1 >>),
      !.std_duration = Some(<< 1, 1 >>), !.avg_embedding_dim = Some(<< 1, 1 >>),
      !.avg_tokens_per_second = Some(<< 1, 1 >>) ]

\* the artifact of this format has a place for statistic s: a cell or a line
\* in which the statistic of a Succeeded result is written
Renders(format, s) == Cell(format, FullResult, s) # "omitted"

\* what stands for "not available": an empty cell, N/A, or JSON's null
NotAvailableMarkers == { "", "N/A", "null" }

\* C17: exporting leaves the report unchanged (what was written is still what
\* the report says), and for every Failed or Errored Model Result no exporter
\* raises and every artifact written has a not-available marker in the place
\* of each absent statistic.
C17_ExportToleratesAbsentStatistics ==
  IsSome(report) =>
    LET rep == Get(report)
        lacking == { k \in 1..Len(rep.results) : rep.results[k].status # "SUCCESS" }
    IN /\ \A a \in 1..Len(saved) : saved[a].rows = Export(saved[a].format, rep)
       /\ \A n \in 1..Len(Artifacts), k \in lacking, s \in StatNames :
            Export(Artifacts[n], rep)[k][s] # "TypeError"
       /\ \A a \in 1..Len(saved), k \in lacking, s \in StatNames :
            (Renders(saved[a].format, s) /\ rep.results[k][s] = None)
              => saved[a].rows[k][s] \in NotAvailableMarkers

\* every Sample Measurement made so far: those of the model under test and
\* those kept in the Model Results
AllMeasurements ==
  { metrics[k] : k \in 1..Len(metrics) } \cup
  UNION { { results[j].individual[k] : k \in 1..Len(results[j].individual) } :
          j \in 1..Len(results) }

\* C18: every Sample Measurement has its dimensionality present exactly when
\* success = true and an error description present exactly when
\* success = false, whatever the service answered.
C18_MeasurementShape ==
  \A m \in AllMeasurements :
    /\ IsSome(m.embedding_dim) <=> m.success
    /\ IsSome(m.error) <=> ~m.success

\* the Model Results made so far, and those of the report once it is built
AllResults ==
  { results[k] : k \in 1..Len(results) } \cup
  (IF IsSome(report)
   THEN { Get(report).results[k] : k \in 1..Len(Get(report).results) }
   ELSE { })

\* C19: a Model Result with exactly one successful measurement has a
\* std_duration of 0 (a spread is computed from two values on).
C19_SingleSuccessHasZeroSpread ==
  \A r \in AllResults : r.successful_tests = 1 => r.std_duration = Some(<< 0, 1 >>)

\* a result of two timed probes of which one failed: one success in it
C19_Witness ==
  \E r \in AllResults :
    /\ r.status = "SUCCESS" /\ r.successful_tests = 1 /\ Len(r.individual) = 2
    /\ \E k \in 1..2 : ~r.individual[k].success
    /\ r.std_duration = Some(<< 0, 1 >>)

\* the durations of the successful measurements of a Model Result, by their
\* position in its list of measurements
SuccessDurations(r) ==
  LET ok == { k \in 1..Len(r.individual) : r.individual[k].success }
  IN [ k \in ok |-> r.individual[k].duration ]

RECURSIVE SumOver(_, _)
SumOver(d, S) ==
  IF S = { } THEN 0
  ELSE LET k == CHOOSE j \in S : TRUE IN d[k] + SumOver(d, S \ { k })

\* x has rank n (from 1) among the values of d in ascending order
OfRank(d, n, x) ==
  /\ \E k \in DOMAIN d : d[k] = x
  /\ Cardinality({ k \in DOMAIN d : d[k] < x }) < n
  /\ n <= Cardinality({ k \in DOMAIN d : d[k] <= x })

IsMeanOf(d, m) ==
  m[2] > 0 /\ m[1] * Cardinality(DOMAIN d) = m[2] * SumOver(d, DOMAIN d)

IsMinOf(d, m) ==
  m[2] = 1 /\ (\E k \in DOMAIN d : d[k] = m[1]) /\ (\A k \in DOMAIN d : m[1] <= d[k])

IsMaxOf(d, m) ==
  m[2] = 1 /\ (\E k \in DOMAIN d : d[k] = m[1]) /\ (\A k \in DOMAIN d : m[1] >= d[k])

\* the middle value, or half the sum of the two middle values
IsMedianOf(d, m) ==
  LET n == Cardinality(DOMAIN d)
  IN \E k, l \in DOMAIN d :
       /\ OfRank(d, (n + 1) \div 2, d[k])
       /\ OfRank(d, n \div 2 + 1, d[l])
       /\ m[2] > 0 /\ 2 * m[1] = m[2] * (d[k] + d[l])

\* the timed probes of Scenario C: five successes with durations 1, 2, 3, 4, 5
FiveSuccesses ==
  [ k \in 1..5 |-> Measurement(TRUE, k, Some(1), Some(Rat(1, k)), None) ]

\* C20: in a Succeeded Model Result the mean, min, max and median duration
\* are those of exactly the durations of its successful measurements; the
\* durations of failed measurements and of warm-up probes do not enter them
\* (five successes with durations 1..5 give mean 3, min 1, max 5, median 3).
C20_StatisticsOverSuccessesOnly ==
  /\ \A r \in AllResults : r.status = "SUCCESS" =>
       LET d == SuccessDurations(r)
       IN /\ IsSome(r.avg_duration) /\ IsMeanOf(d, Get(r.avg_duration))
          /\ IsSome(r.min_duration) /\ IsMinOf(d, Get(r.min_duration))
          /\ IsSome(r.max_duration) /\ IsMaxOf(d, Get(r.max_duration))
          /\ IsSome(r.median_duration) /\ IsMedianOf(d, Get(r.median_duration))
  /\ LET r == IF variant = "base"
              THEN BaseSuccessResult("m", 5, FiveSuccesses, "info")
              ELSE ReservAggregate("m", FiveSuccesses)
     IN /\ r.avg_duration = Some(<< 3, 1 >>)
        /\ r.min_duration = Some(<< 1, 1 >>)
        /\ r.max_duration = Some(<< 5, 1 >>)
        /\ r.median_duration = Some(<< 3, 1 >>)

\* the place of a model in the configured model list
PositionOf(model) == CHOOSE k \in 1..Len(config.models) : config.models[k] = model

\* entries of equal key stand in the order of the configured model list
TiesInConfiguredOrder(ranking, SameKey(_, _)) ==
  \A a, b \in 1..Len(ranking) :
    (a < b /\ SameKey(ranking[a], ranking[b])) =>
      PositionOf(ranking[a].model) < PositionOf(ranking[b].model)

SameMeanDuration(x, y) == x.avg_duration = y.avg_duration

SameMeanDimensionality(x, y) == DimOf(x) = DimOf(y)

\* C21: in both rankings two Succeeded models of equal sort key (equal mean
\* duration in the speed ranking, equal mean dimensionality in the quality
\* ranking, which sorts descending) appear in the relative order of the
\* configured model list.
C21_RankingTiesKeepModelOrder ==
  IsSome(report) =>
    /\ TiesInConfiguredOrder(Get(report).summary.ranking_by_speed, SameMeanDuration)
    /\ TiesInConfiguredOrder(Get(report).summary.ranking_by_quality, SameMeanDimensionality)

\* a report of two Succeeded models of equal mean dimensionality, the second
\* of which is the faster one: the speed ranking reverses them, the quality
\* ranking keeps them
C21_Witness ==
  /\ IsSome(report)
  /\ LET s == Get(report).summary.ranking_by_speed
         q == Get(report).summary.ranking_by_quality
     IN /\ Len(s) = 2 /\ Len(q) = 2
        /\ s[1].model = config.models[2]
        /\ SameMeanDimensionality(q[1], q[2])
        /\ q[1].model = config.models[1]

\* C22: the delay slept before each further attempt of one client call
\* doubles from one attempt to the next, up to a fixed ceiling that it never
\* exceeds, for every value of max_retries.
C22_BackoffDoublesUpToCeiling ==
  \A n \in 1..Len(call.slept) :
    /\ call.slept[n] <= WAIT_MAX
    /\ n > 1 => call.slept[n] = Min2(2 * call.slept[n - 1], WAIT_MAX)

\* a step in which a warm-up request of test_model ends
WarmupEnds == variant = "reserv" /\ pc = "warmup" /\ w' = w + 1

\* C23: in Variant_reserv test_model, exactly warmup_requests warm-up
\* requests for the model are completed before the first timed sample is
\* issued, and their outcomes, success or failure, appear in no measurement,
\* count or statistic of the Model Result.
C23_WarmupCompletedAndDiscarded ==
  /\ []((variant = "reserv" /\ pc = "probe") => w = config.warmup_requests)
  /\ []((variant = "reserv" /\ pc = "warmup") =>
          (w < config.warmup_requests /\ i = 0 /\ metrics = << >>))
  /\ [][ WarmupEnds => UNCHANGED << i, metrics, results >> ]_vars
  /\ [](variant = "reserv" =>
          \A r \in AllResults :
            r.status \in { "SUCCESS", "FAILED" } =>
              /\ r.total_tests = config.tests_per_model
              /\ Len(r.individual) = config.tests_per_model
              /\ r.successful_tests + Get(r.failed_tests) = config.tests_per_model)

\* the first timed sample is about to be issued after one warm-up request
\* that the service answered with HTTP errors only
C23_Witness ==
  /\ variant = "reserv" /\ pc = "probe" /\ config.warmup_requests = 1 /\ w = 1
  /\ i = 0 /\ call.state = "ready" /\ call.attempt = 0 /\ metrics = << >>
  /\ embed_sent /\ only_http[mi]

\* the distinct error descriptions of the failed measurements of a result
ErrorDescriptions(r) ==
  { Get(r.individual[k].error) :
      k \in { j \in 1..Len(r.individual) :
                ~r.individual[j].success /\ IsSome(r.individual[j].error) } }

\* C24: a result that test_model builds from measurements none of which is
\* successful has status Failed, and its error summary consists of each distinct error
\* description of its failed measurements exactly once, and of nothing else.
C24_FailedSummaryIsDistinctErrors ==
  \A r \in AllResults :
    (r.status # "ERROR" /\ r.successful_tests = 0 /\ Len(r.individual) > 0) =>
      /\ r.status = "FAILED"
      /\ r.error = Some(ErrorDescriptions(r))

\* a step in which a timed probe of test_model ends with a measurement
ProbeEnds == pc = "probe" /\ i' = i + 1

\* a step in which test_model returns a Succeeded or Failed result
TestModelReturns ==
  /\ Len(results') = Len(results) + 1
  /\ results'[Len(results')].status \in { "SUCCESS", "FAILED" }

\* C25: the measurement list of a Succeeded or Failed result is exactly the
\* outcomes of the timed probes in the order they were issued: it has
\* tests_per_model entries, and entry i is the outcome of the i-th probe,
\* which used sample text number i mod pool_size.
C25_MeasurementsInProbeOrder ==
  /\ [](\A r \in AllResults :
          r.status \in { "SUCCESS", "FAILED" } =>
            /\ Len(r.individual) = config.tests_per_model
            /\ \A k \in 1..Len(r.individual) :
                 r.individual[k].text = TEST_TEXTS[((k - 1) % Len(TEST_TEXTS)) + 1])
  /\ [][ ProbeEnds =>
           /\ Len(metrics') = Len(metrics) + 1
           /\ SubSeq(metrics', 1, Len(metrics)) = metrics
           /\ metrics'[Len(metrics')].duration = call.elapsed
           /\ metrics'[Len(metrics')].success = Get(SingleEmbedding(call).result).success
           /\ metrics'[Len(metrics')].text = TEST_TEXTS[(Len(metrics) % Len(TEST_TEXTS)) + 1] ]_vars
  /\ [][ TestModelReturns => results'[Len(results')].individual = metrics ]_vars

\* a result of eleven probes, one more than the pool has texts: the last one
\* used the first text again, and the first two outcomes differ
C25_Witness ==
  \E r \in AllResults :
    /\ r.status = "SUCCESS" /\ Len(r.individual) = Len(TEST_TEXTS) + 1
    /\ r.individual[Len(TEST_TEXTS) + 1].text = TEST_TEXTS[1]
    /\ r.individual[Len(TEST_TEXTS)].text = TEST_TEXTS[Len(TEST_TEXTS)]
    /\ r.individual[1].embedding_dim # r.individual[2].embedding_dim

\* a step of Variant_base in which the model whose model-info lookup is
\* under way gets its result (the lookup comes after sampling, and only for
\* a model of which a timed sample succeeded)
ResultAfterLookup ==
  variant = "base" /\ pc = "info" /\ Len(results') = Len(results) + 1

\* C26: in Variant_base a model of which at least one timed sample succeeded
\* is reported with status SUCCESS, with successful_tests equal to the number
\* of successful samples and with its measurements, whatever the outcome of
\* the model-info lookup, the lookup exhausting its retries included.
C26_LookupNeverChangesStatus ==
  [][ ResultAfterLookup =>
        LET r == results'[Len(results')]
        IN /\ SelectSeq(metrics, IsSuccess) # << >>
           /\ r.status = "SUCCESS"
           /\ r.successful_tests = Len(SelectSeq(metrics, IsSuccess))
           /\ r.individual = metrics ]_vars

\* C27: the duration recorded in a successful Sample Measurement is the
\* elapsed time of the one request attempt that succeeded (one of the times
\* the service takes to answer a request): neither the earlier failed
\* attempts of the same probe nor the backoff delays between them are in it.
C27_DurationOfSucceedingAttempt ==
  \A m \in AllMeasurements : m.success => m.duration \in env.times

\* C28: for every report that run_tests can return, every exporter runs to
\* completion without raising, reports with a Succeeded result whose mean
\* dimensionality or mean throughput is absent included.
C28_ExportersNeverRaise ==
  ~(pc = "raised" /\ raised = Some("TypeError") /\ IsSome(report))

\* C29: in Variant_reserv each warm-up request is attempted at most
\* config.max_retries times, the bound that applies to timed probes.
C29_WarmupWithinConfiguredBudget ==
  (variant = "reserv" /\ pc = "warmup") => call.attempt <= config.max_retries

\* C30: in every report the summary satisfies successful_models +
\* failed_models = total_models = the number of entries of the result list,
\* and each of the two rankings has exactly successful_models entries (an
\* Errored result counts as a failed model).
C30_SummaryCountsAddUp ==
  IsSome(report) =>
    LET rep == Get(report)
        su == rep.summary
    IN /\ su.total_models = Len(rep.results)
       /\ su.successful_models + su.failed_models = su.total_models
       /\ su.successful_models =
            Cardinality({ k \in 1..Len(rep.results) : rep.results[k].status = "SUCCESS" })
       /\ Len(su.ranking_by_speed) = su.successful_models
       /\ Len(su.ranking_by_quality) = su.successful_models

\* a report of one Succeeded and one Errored model
C30_Witness ==
  /\ IsSome(report)
  /\ Statuses(Get(report).results) = { "SUCCESS", "ERROR" }
  /\ Get(report).summary.successful_models = 1
  /\ Get(report).summary.failed_models = 1
  /\ Len(Get(report).summary.ranking_by_speed) = 1

====
